---------------------------- MODULE Spec2Model ----------------------------
(***************************************************************************)
(* generic_cache::Object<T, F> (src/src/lib.rs): a single cached value     *)
(* with a time-to-live in milliseconds and an async refresh function.      *)
(*                                                                         *)
(* Time is counted in ticks, TicksPerMs ticks to the millisecond, so that  *)
(* Duration::as_millis() really truncates.  `now` is the reading of        *)
(* SystemTime::now().  An async method is split at its only await point    *)
(* (the call of refresh_fn): the ...Call action runs the code up to the    *)
(* await, the ...Ok / ...Err action runs the code after it, and time may   *)
(* pass in between.                                                        *)
(***************************************************************************)
EXTENDS Integers, Sequences, FiniteSets

VARIABLES
    phase,        \* "unborn" (no Object yet), "idle", the method awaiting
                  \* refresh_fn ("new_and_refresh", "refresh",
                  \* "get_or_refresh"), or "panicked"
    ttl,          \* Object.ttl (ms)
    last_update,  \* Object.last_update (a SystemTime, in ticks)
    obj,          \* Object.obj
    now,          \* SystemTime::now(), in ticks
    calls,        \* number of invocations of refresh_fn so far
    fres,         \* outcome of the latest completed refresh_fn invocation
    ret,          \* what the latest completed call returned to its caller
    hist,         \* the calls completed since time last moved, oldest first
    pre,          \* the Object as it was when the latest constructor,
                  \* refresh or get_or_refresh call was entered
    latest,       \* the value handed to new(), or produced by the latest
                  \* successful refresh_fn invocation
    installedAt,  \* clock reading when the stored value was installed
    fails         \* refresh_fn invocations that failed since the stored
                  \* value was installed

vars == <<phase, ttl, last_update, obj, now, calls, fres, ret, hist, pre,
          latest, installedAt, fails>>

(* ------------------------------ bounds -------------------------------- *)
TicksPerMs == 2      \* clock resolution: ticks per millisecond
MaxTtl     == 1      \* ttl ranges over 0..MaxTtl ms
MaxTime    == 6      \* the clock reads 0..MaxTime ticks
MaxCalls   == 3      \* refresh_fn is invoked at most MaxCalls times
NumValues  == 2      \* refresh_fn yields one of NumValues values
NumErrors  == 2      \* ... or one of NumErrors errors
HistLen    == 3      \* hist keeps the last HistLen calls

Values == {100 * i : i \in 1..NumValues}
Errors == {0 - i : i \in 1..NumErrors}
NoVal  == 0
Ttls   == 0..MaxTtl

(* ----------------------------- results -------------------------------- *)
Ok(v)        == [res |-> "Ok",           val |-> v]
Err(e)       == [res |-> "Err",          val |-> e]
TimeoutError == [res |-> "TimeoutError", val |-> NoVal]
Panic        == [res |-> "panic",        val |-> NoVal]
None         == [res |-> "none",         val |-> NoVal]

Returned(op, r) == [op |-> op, res |-> r.res, val |-> r.val]

Push(op) == IF Len(hist) < HistLen THEN Append(hist, op)
            ELSE Append(Tail(hist), op)

(* ---------------------- the staleness test ---------------------------- *)
\* SystemTime::elapsed(): Err when the clock reads earlier than `since`
elapsed_is_err(since) == now < since

\* mutant of as_millis: rounds up to the next whole millisecond
as_millis_RoundUp(d) == (d + TicksPerMs - 1) \div TicksPerMs

\* Duration::as_millis(): whole milliseconds, truncated
as_millis(d) == d \div TicksPerMs

\* self.last_update.elapsed().unwrap().as_millis() > self.ttl
expired == as_millis(now - last_update) > ttl

\* Object::get, as a function of the current state
get ==
    IF elapsed_is_err(last_update) THEN Panic
    ELSE IF expired THEN TimeoutError
    ELSE Ok(obj)

Snapshot == [obj |-> obj, last_update |-> last_update, calls |-> calls,
             stale |-> (~elapsed_is_err(last_update) /\ expired),
             at |-> now, fails |-> fails]

(* ------------------------------ Init ---------------------------------- *)
Init ==
    /\ phase = "unborn"
    /\ ttl = 0
    /\ last_update = 0
    /\ obj = NoVal
    /\ now = 0
    /\ calls = 0
    /\ fres = None
    /\ ret = Returned("none", None)
    /\ hist = << >>
    /\ pre = [obj |-> NoVal, last_update |-> 0, calls |-> 0,
              stale |-> FALSE, at |-> 0, fails |-> 0]
    /\ latest = NoVal
    /\ installedAt = 0
    /\ fails = 0

(* --------------------------- constructors ----------------------------- *)
\* mutant of New: last_update is stamped with the epoch, not the clock
New_EpochStamp(t, v) ==
    /\ phase = "unborn"
    /\ phase' = "idle"
    /\ ttl' = t
    /\ last_update' = 0
    /\ obj' = v
    /\ ret' = Returned("new", Ok(v))
    /\ hist' = Push("new")
    /\ pre' = Snapshot
    /\ latest' = v
    /\ installedAt' = now
    /\ fails' = 0
    /\ UNCHANGED <<now, calls, fres>>

\* Object::new(ttl, obj, refresh_fn)
New(t, v) ==
    /\ phase = "unborn"
    /\ phase' = "idle"
    /\ ttl' = t
    /\ last_update' = now
    /\ obj' = v
    /\ ret' = Returned("new", Ok(v))
    /\ hist' = Push("new")
    /\ pre' = Snapshot
    /\ latest' = v
    /\ installedAt' = now
    /\ fails' = 0
    /\ UNCHANGED <<now, calls, fres>>

\* Object::new_and_refresh(ttl, refresh_fn), up to `refresh_fn().await`
NewAndRefreshCall(t) ==
    /\ phase = "unborn"
    /\ calls < MaxCalls
    /\ phase' = "new_and_refresh"
    /\ ttl' = t
    /\ calls' = calls + 1
    /\ pre' = Snapshot
    /\ UNCHANGED fails
    /\ UNCHANGED <<last_update, obj, now, fres, ret, hist, latest,
                   installedAt>>

\* mutant of NewAndRefreshOk: last_update is read before the await
NewAndRefreshOk_StampAtCall(w) ==
    /\ phase = "new_and_refresh"
    /\ phase' = "idle"
    /\ last_update' = pre.at
    /\ obj' = w
    /\ fres' = Ok(w)
    /\ ret' = Returned("new_and_refresh", Ok(w))
    /\ hist' = Push("new_and_refresh")
    /\ latest' = w
    /\ installedAt' = now
    /\ fails' = 0
    /\ UNCHANGED <<ttl, now, calls, pre>>

\* ... refresh_fn yielded Ok(w): the Object is built
NewAndRefreshOk(w) ==
    /\ phase = "new_and_refresh"
    /\ phase' = "idle"
    /\ last_update' = now
    /\ obj' = w
    /\ fres' = Ok(w)
    /\ ret' = Returned("new_and_refresh", Ok(w))
    /\ hist' = Push("new_and_refresh")
    /\ latest' = w
    /\ installedAt' = now
    /\ fails' = 0
    /\ UNCHANGED <<ttl, now, calls, pre>>

\* mutant of NewAndRefreshErr: an Object without a value is built although
\* refresh_fn failed
NewAndRefreshErr_Placeholder(e) ==
    /\ phase = "new_and_refresh"
    /\ phase' = "idle"
    /\ last_update' = now
    /\ fres' = Err(e)
    /\ ret' = Returned("new_and_refresh", Err(e))
    /\ hist' = Push("new_and_refresh")
    /\ fails' = fails + 1
    /\ UNCHANGED <<ttl, obj, now, calls, pre, latest, installedAt>>

\* ... refresh_fn yielded Err(e): `?` returns it, no Object is built
NewAndRefreshErr(e) ==
    /\ phase = "new_and_refresh"
    /\ phase' = "unborn"
    /\ ttl' = 0
    /\ fres' = Err(e)
    /\ ret' = Returned("new_and_refresh", Err(e))
    /\ hist' = Push("new_and_refresh")
    /\ fails' = fails + 1
    /\ UNCHANGED <<last_update, obj, now, calls, pre, latest, installedAt>>

(* ------------------------------ refresh ------------------------------- *)
\* Object::refresh, up to `(self.refresh_fn)().await`
RefreshCall ==
    /\ phase = "idle"
    /\ calls < MaxCalls
    /\ phase' = "refresh"
    /\ calls' = calls + 1
    /\ pre' = Snapshot
    /\ UNCHANGED fails
    /\ UNCHANGED <<ttl, last_update, obj, now, fres, ret, hist, latest,
                   installedAt>>

\* mutant of RefreshOk: last_update is read before the await
RefreshOk_StampAtCall(v) ==
    /\ phase = "refresh"
    /\ phase' = "idle"
    /\ obj' = v
    /\ last_update' = pre.at
    /\ fres' = Ok(v)
    /\ ret' = Returned("refresh", Ok(NoVal))
    /\ hist' = Push("refresh")
    /\ latest' = v
    /\ installedAt' = now
    /\ fails' = 0
    /\ UNCHANGED <<ttl, now, calls, pre>>

\* mutant of RefreshOk: last_update is stamped but the value is not stored
RefreshOk_Discards(v) ==
    /\ phase = "refresh"
    /\ phase' = "idle"
    /\ last_update' = now
    /\ fres' = Ok(v)
    /\ ret' = Returned("refresh", Ok(NoVal))
    /\ hist' = Push("refresh")
    /\ latest' = v
    /\ installedAt' = now
    /\ fails' = 0
    /\ UNCHANGED <<ttl, obj, now, calls, pre>>

\* mutant of RefreshOk: the value is stored but last_update is not stamped
RefreshOk_NoStamp(v) ==
    /\ phase = "refresh"
    /\ phase' = "idle"
    /\ obj' = v
    /\ fres' = Ok(v)
    /\ ret' = Returned("refresh", Ok(NoVal))
    /\ hist' = Push("refresh")
    /\ latest' = v
    /\ installedAt' = now
    /\ fails' = 0
    /\ UNCHANGED <<ttl, last_update, now, calls, pre>>

\* ... refresh_fn yielded Ok(v): store it, stamp last_update, return Ok(())
RefreshOk(v) ==
    /\ phase = "refresh"
    /\ phase' = "idle"
    /\ obj' = v
    /\ last_update' = now
    /\ fres' = Ok(v)
    /\ ret' = Returned("refresh", Ok(NoVal))
    /\ hist' = Push("refresh")
    /\ latest' = v
    /\ installedAt' = now
    /\ fails' = 0
    /\ UNCHANGED <<ttl, now, calls, pre>>

\* mutant of RefreshErr: a failed refresh leaves the Object unusable
RefreshErr_Poisons(e) ==
    /\ phase = "refresh"
    /\ phase' = "panicked"
    /\ fres' = Err(e)
    /\ ret' = Returned("refresh", Err(e))
    /\ hist' = Push("refresh")
    /\ fails' = fails + 1
    /\ UNCHANGED <<ttl, last_update, obj, now, calls, pre, latest,
                   installedAt>>

\* mutant of RefreshErr: refresh_fn is invoked again after it failed
RefreshErr_Retry(e) ==
    /\ phase = "refresh"
    /\ calls < MaxCalls
    /\ calls' = calls + 1
    /\ fres' = Err(e)
    /\ fails' = fails + 1
    /\ UNCHANGED <<phase, ttl, last_update, obj, now, ret, hist, pre, latest,
                   installedAt>>

\* mutant of RefreshErr: last_update is stamped although refresh_fn failed
RefreshErr_Stamp(e) ==
    /\ phase = "refresh"
    /\ phase' = "idle"
    /\ last_update' = now
    /\ fres' = Err(e)
    /\ ret' = Returned("refresh", Err(e))
    /\ hist' = Push("refresh")
    /\ fails' = fails + 1
    /\ UNCHANGED <<ttl, obj, now, calls, pre, latest, installedAt>>

\* ... refresh_fn yielded Err(e): `?` returns it before any assignment
RefreshErr(e) ==
    /\ phase = "refresh"
    /\ phase' = "idle"
    /\ fres' = Err(e)
    /\ ret' = Returned("refresh", Err(e))
    /\ hist' = Push("refresh")
    /\ fails' = fails + 1
    /\ UNCHANGED <<ttl, last_update, obj, now, calls, pre, latest,
                   installedAt>>

(* -------------------------------- get --------------------------------- *)
\* mutant of Get: a successful read restarts the time-to-live
Get_Touch ==
    /\ phase = "idle"
    /\ phase' = IF get = Panic THEN "panicked" ELSE "idle"
    /\ last_update' = IF get.res = "Ok" THEN now ELSE last_update
    /\ ret' = Returned("get", get)
    /\ hist' = Push("get")
    /\ UNCHANGED fails
    /\ UNCHANGED <<ttl, obj, now, calls, fres, pre, latest, installedAt>>

\* Object::get
Get ==
    /\ phase = "idle"
    /\ phase' = IF get = Panic THEN "panicked" ELSE "idle"
    /\ ret' = Returned("get", get)
    /\ hist' = Push("get")
    /\ UNCHANGED fails
    /\ UNCHANGED <<ttl, last_update, obj, now, calls, fres, pre, latest,
                   installedAt>>

(* --------------------------- get_or_refresh --------------------------- *)
\* mutant of GetOrRefreshCall: refresh_fn is invoked whether or not the
\* value is expired
GetOrRefreshCall_Always ==
    /\ phase = "idle"
    /\ pre' = Snapshot
    /\ IF elapsed_is_err(last_update)
       THEN /\ phase' = "panicked"
            /\ ret' = Returned("get_or_refresh", Panic)
            /\ hist' = Push("get_or_refresh")
            /\ calls' = calls
       ELSE /\ calls < MaxCalls
            /\ phase' = "get_or_refresh"
            /\ calls' = calls + 1
            /\ UNCHANGED <<ret, hist>>
    /\ UNCHANGED <<ttl, last_update, obj, now, fres, latest, installedAt,
                   fails>>

\* Object::get_or_refresh, up to `(self.refresh_fn)().await` when the value
\* is expired, and to its end when it is not
GetOrRefreshCall ==
    /\ phase = "idle"
    /\ pre' = Snapshot
    /\ IF elapsed_is_err(last_update)
       THEN /\ phase' = "panicked"
            /\ ret' = Returned("get_or_refresh", Panic)
            /\ hist' = Push("get_or_refresh")
            /\ calls' = calls
       ELSE IF expired
       THEN /\ calls < MaxCalls
            /\ phase' = "get_or_refresh"
            /\ calls' = calls + 1
            /\ UNCHANGED <<ret, hist>>
       ELSE /\ phase' = "idle"
            /\ ret' = Returned("get_or_refresh", Ok(obj))
            /\ hist' = Push("get_or_refresh")
            /\ calls' = calls
    /\ UNCHANGED <<ttl, last_update, obj, now, fres, latest, installedAt,
                   fails>>

\* mutant of GetOrRefreshOk: the value read before the await is returned
GetOrRefreshOk_ReturnsOld(v) ==
    /\ phase = "get_or_refresh"
    /\ phase' = "idle"
    /\ obj' = v
    /\ fres' = Ok(v)
    /\ ret' = Returned("get_or_refresh", Ok(obj))
    /\ hist' = Push("get_or_refresh")
    /\ latest' = v
    /\ installedAt' = now
    /\ fails' = 0
    /\ UNCHANGED <<ttl, last_update, now, calls, pre>>

\* ... refresh_fn yielded Ok(v): store it and return Ok(&self.obj);
\* last_update is not assigned on this path
GetOrRefreshOk(v) ==
    /\ phase = "get_or_refresh"
    /\ phase' = "idle"
    /\ obj' = v
    /\ fres' = Ok(v)
    /\ ret' = Returned("get_or_refresh", Ok(v))
    /\ hist' = Push("get_or_refresh")
    /\ latest' = v
    /\ installedAt' = now
    /\ fails' = 0
    /\ UNCHANGED <<ttl, last_update, now, calls, pre>>

\* mutant of GetOrRefreshErr: last_update is stamped although refresh_fn
\* failed
GetOrRefreshErr_Stamp(e) ==
    /\ phase = "get_or_refresh"
    /\ phase' = "idle"
    /\ last_update' = now
    /\ fres' = Err(e)
    /\ ret' = Returned("get_or_refresh", Err(e))
    /\ hist' = Push("get_or_refresh")
    /\ fails' = fails + 1
    /\ UNCHANGED <<ttl, obj, now, calls, pre, latest, installedAt>>

\* ... refresh_fn yielded Err(e): `?` returns it before the assignment
GetOrRefreshErr(e) ==
    /\ phase = "get_or_refresh"
    /\ phase' = "idle"
    /\ fres' = Err(e)
    /\ ret' = Returned("get_or_refresh", Err(e))
    /\ hist' = Push("get_or_refresh")
    /\ fails' = fails + 1
    /\ UNCHANGED <<ttl, last_update, obj, now, calls, pre, latest,
                   installedAt>>

(* ------------------------------- time --------------------------------- *)
\* one tick of time passes (also while a method awaits refresh_fn)
Tick ==
    /\ now < MaxTime
    /\ now' = now + 1
    /\ hist' = << >>
    /\ UNCHANGED fails
    /\ UNCHANGED <<phase, ttl, last_update, obj, calls, fres, ret, pre,
                   latest, installedAt>>

\* the system clock is set to another reading: SystemTime is not monotonic
ClockAdjust(t) ==
    /\ t # now
    /\ now' = t
    /\ hist' = << >>
    /\ UNCHANGED fails
    /\ UNCHANGED <<phase, ttl, last_update, obj, calls, fres, ret, pre,
                   latest, installedAt>>

\* the caller drops the future of new_and_refresh, refresh or get_or_refresh
\* while it awaits refresh_fn: the code after the await never runs
Abandon ==
    /\ phase \in {"new_and_refresh", "refresh", "get_or_refresh"}
    /\ phase' = IF phase = "new_and_refresh" THEN "unborn" ELSE "idle"
    /\ ttl' = IF phase = "new_and_refresh" THEN 0 ELSE ttl
    /\ ret' = Returned("abandoned", None)
    /\ hist' = Push("abandoned")
    /\ UNCHANGED <<last_update, obj, now, calls, fres, pre, latest,
                   installedAt, fails>>

(* --------------------------- specification ---------------------------- *)
Next ==
    \/ \E t \in Ttls, v \in Values : New(t, v)
    \/ \E t \in Ttls : NewAndRefreshCall(t)
    \/ \E w \in Values : NewAndRefreshOk(w)
    \/ \E e \in Errors : NewAndRefreshErr(e)
    \/ RefreshCall
    \/ \E v \in Values : RefreshOk(v)
    \/ \E e \in Errors : RefreshErr(e)
    \/ Get
    \/ GetOrRefreshCall
    \/ \E v \in Values : GetOrRefreshOk(v)
    \/ \E e \in Errors : GetOrRefreshErr(e)
    \/ Abandon
    \/ Tick

\* the system clock is left alone: SystemTime advances with real time
Spec == Init /\ [][Next]_vars

NextSkew ==
    \/ Next
    \/ \E t \in 0..MaxTime : ClockAdjust(t)

\* the system clock may be set forwards or backwards at any moment
SpecSkew == Init /\ [][NextSkew]_vars

TypeOK ==
    /\ phase \in {"unborn", "idle", "new_and_refresh", "refresh",
                  "get_or_refresh", "panicked"}
    /\ ttl \in Ttls
    /\ last_update \in 0..MaxTime
    /\ obj \in Values \cup {NoVal}
    /\ now \in 0..MaxTime
    /\ calls \in 0..MaxCalls
    /\ Len(hist) <= HistLen
    /\ fails \in 0..MaxCalls

(* ------------------------- reading the history ------------------------ *)
\* the call completed last, with no time passed since
Last == IF hist = << >> THEN "none" ELSE hist[Len(hist)]

\* the two calls completed last were a, then b, with no time passed since
LastTwo(a, b) ==
    /\ Len(hist) >= 2
    /\ hist[Len(hist) - 1] = a
    /\ hist[Len(hist)] = b

\* an Object exists
Born == phase \notin {"unborn", "new_and_refresh"}

\* the ttl in ticks
TtlTicks == ttl * TicksPerMs

(* ------------------------------- C1 ----------------------------------- *)
\* C1 (as claimed): with e the time elapsed since the stored value was
\* installed (construction or the latest successful refresh), get() is Ok
\* with the stored value iff e <= ttl and TimeoutError iff e > ttl.  Stated
\* here for the elapsed times that are whole milliseconds, where as_millis
\* truncates nothing.
C1_Original ==
    (phase = "idle" /\ (now - installedAt) % TicksPerMs = 0)
        => /\ (get = Ok(obj)) <=> (now - installedAt <= TtlTicks)
           /\ (get = TimeoutError) <=> (now - installedAt > TtlTicks)

(* ------------------------------- C2 ----------------------------------- *)
\* C2 (as claimed): right after get_or_refresh() found the value expired
\* and refresh_fn succeeded, last_update is the completion time, get()
\* returns Ok with the new value and the value is not expired.
C2_Original ==
    (phase = "idle" /\ Last = "get_or_refresh" /\ pre.stale
                    /\ ret.res = "Ok")
        => /\ last_update = now
           /\ get = Ok(fres.val)
           /\ ~expired

(* ------------------------------- C3 ----------------------------------- *)
\* C3 (as claimed): whenever an Object exists, last_update is the time at
\* which the stored value was installed.
C3_Original == Born => last_update = installedAt

(* ------------------------------- C4 ----------------------------------- *)
\* C4: right after a successful refresh(), stale or not before it, get()
\* succeeds and returns the value refresh_fn just produced.
C4_RefreshThenGet ==
    /\ (phase = "idle" /\ Last = "refresh" /\ ret.res = "Ok")
          => get = Ok(fres.val)
    /\ (phase = "idle" /\ LastTwo("refresh", "get") /\ fres.res = "Ok")
          => ret = Returned("get", Ok(fres.val))

\* new(ttl, 100, f) went stale, get() said so, refresh() stored 200 and
\* get() returned 200
C4_Witness ==
    /\ hist = <<"get", "refresh", "get">>
    /\ pre.stale /\ pre.obj = 100
    /\ fres = Ok(200)
    /\ ret = Returned("get", Ok(200))

(* ------------------------------- C5 ----------------------------------- *)
\* C5: when refresh_fn fails inside refresh(), obj and last_update are what
\* they were when refresh() was entered, and refresh() returns that error.
C5_RefreshErrKeeps ==
    (phase = "idle" /\ Last = "refresh" /\ ret.res = "Err")
        => /\ obj = pre.obj
           /\ last_update = pre.last_update
           /\ fres.res = "Err"
           /\ ret.val = fres.val

\* a refresh() of a stale value failed after time had passed in the await
C5_Witness ==
    /\ phase = "idle" /\ Last = "refresh" /\ ret.res = "Err"
    /\ pre.stale
    /\ pre.at < now

(* ------------------------------- C6 ----------------------------------- *)
\* C6: get_or_refresh() on a value that is not expired returns the stored
\* value, does not invoke refresh_fn and leaves obj and last_update alone.
C6_FreshNoRefresh ==
    (phase = "idle" /\ Last = "get_or_refresh" /\ ~pre.stale)
        => /\ ret = Returned("get_or_refresh", Ok(pre.obj))
           /\ calls = pre.calls
           /\ obj = pre.obj
           /\ last_update = pre.last_update

\* new_and_refresh(ttl, f) yielding 200, then get_or_refresh() twice
C6_Witness ==
    /\ phase = "idle"
    /\ hist = <<"new_and_refresh", "get_or_refresh", "get_or_refresh">>
    /\ ~pre.stale
    /\ calls = 1
    /\ ret = Returned("get_or_refresh", Ok(200))

(* ------------------------------- C7 ----------------------------------- *)
\* C7: get_or_refresh() on an expired value invokes refresh_fn exactly
\* once and, when that succeeds, returns the value it produced.
C7_StaleRefreshesOnce ==
    /\ phase = "get_or_refresh" => (pre.stale /\ calls = pre.calls + 1)
    /\ (phase = "idle" /\ Last = "get_or_refresh" /\ pre.stale)
          => /\ calls = pre.calls + 1
             /\ fres.res = "Ok"
                   => /\ ret = Returned("get_or_refresh", Ok(fres.val))
                      /\ obj = fres.val

\* ttl = 0, default 100: once time has passed get_or_refresh() returns 200
C7_Witness ==
    /\ phase = "idle" /\ Last = "get_or_refresh" /\ pre.stale
    /\ ttl = 0 /\ pre.obj = 100
    /\ ret = Returned("get_or_refresh", Ok(200))

C9_NewThenGet ==
    /\ (phase = "idle" /\ Last = "new")
          => (calls = pre.calls /\ get = Ok(latest))
    /\ (phase = "idle" /\ (hist = <<"new", "get">>
                            \/ hist = <<"new", "get", "get">>))
          => (calls = pre.calls /\ ret = Returned("get", Ok(latest)))

\* new(ttl, 100, f), get(), get(): both 100, f never invoked
C9_Witness ==
    /\ phase = "idle"
    /\ hist = <<"new", "get", "get">>
    /\ ret = Returned("get", Ok(100))
    /\ calls = 0

(* ------------------------------- C10 ---------------------------------- *)
\* C10: new_and_refresh(ttl, f), when f succeeds with w, has invoked f
\* exactly once and yields an Object whose immediate get() returns w.
C10_NewAndRefreshThenGet ==
    /\ phase = "new_and_refresh" => calls = pre.calls + 1
    /\ (phase = "idle" /\ Last = "new_and_refresh" /\ ret.res = "Ok")
          => /\ calls = pre.calls + 1
             /\ ret.val = fres.val
             /\ get = Ok(fres.val)
    /\ (phase = "idle" /\ LastTwo("new_and_refresh", "get"))
          => ret = Returned("get", Ok(fres.val))

\* new_and_refresh(0, f) whose f took more than ttl to yield 200, then
\* get() returning 200
C10_Witness ==
    /\ phase = "idle"
    /\ LastTwo("new_and_refresh", "get")
    /\ ttl = 0
    /\ pre.at + TicksPerMs <= last_update
    /\ calls = 1
    /\ ret = Returned("get", Ok(200))

(* ------------------------------- C11 ---------------------------------- *)
\* C11: when refresh_fn fails inside new_and_refresh(), no Object is
\* built and refresh_fn's error is what new_and_refresh() returns.
C11_NewAndRefreshErrNoObject ==
    /\ ~Born => obj = NoVal
    /\ (Last = "new_and_refresh" /\ ret.res = "Err")
          => /\ ~Born
             /\ fres.res = "Err"
             /\ ret = Returned("new_and_refresh", fres)

\* new_and_refresh() failed with the second error after time had passed in
\* the await; nothing was built
C11_Witness ==
    /\ phase = "unborn"
    /\ Last = "new_and_refresh"
    /\ ret = Returned("new_and_refresh", Err(0 - 2))
    /\ pre.at < now
    /\ calls = 1

(* ------------------------------- C12 ---------------------------------- *)
\* a step that is a completed get(): it returned, and no time passed
GetStep ==
    /\ phase = "idle"
    /\ now' = now
    /\ ret'.op = "get"
    /\ <<ret, hist>>' # <<ret, hist>>

\* C12: get() changes no field of the Object and does not invoke
\* refresh_fn; a get() right after a get() returns what that one returned.
C12_GetIsPure ==
    [][GetStep =>
          /\ UNCHANGED <<ttl, last_update, obj, calls, fres>>
          /\ (Last = "get" /\ ret.op = "get") => ret' = ret]_vars

\* two get() in a row on an expired value: both TimeoutError
C12_Witness ==
    /\ phase = "idle"
    /\ LastTwo("get", "get")
    /\ ret = Returned("get", TimeoutError)

(* ------------------------------- C13 ---------------------------------- *)
\* a step in which refresh() or get_or_refresh() completes with refresh_fn
\* having succeeded
RefreshSucceededStep ==
    /\ phase \in {"refresh", "get_or_refresh"}
    /\ phase' = "idle"
    /\ ret'.res = "Ok"

C14_RefreshInvokesOnce ==
    /\ phase \in {"refresh", "get_or_refresh"} => calls = pre.calls + 1
    /\ (phase = "idle" /\ Last = "refresh") => calls = pre.calls + 1
    /\ (phase = "idle" /\ Last = "get_or_refresh" /\ ret.res = "Err")
          => calls = pre.calls + 1
    /\ (phase = "idle" /\ Last \in {"refresh", "get_or_refresh"}
                       /\ ret.res = "Err")
          => fails = pre.fails + 1

\* refresh() of a value that was not expired failed: one invocation
C14_Witness ==
    /\ phase = "idle"
    /\ Last = "refresh"
    /\ ret.res = "Err"
    /\ ~pre.stale
    /\ calls = pre.calls + 1

C16_Original ==
    /\ phase \in {"refresh", "get_or_refresh"}
          => (obj = pre.obj /\ last_update = pre.last_update)
    /\ (phase = "idle" /\ Last \in {"refresh", "get_or_refresh"}
                       /\ ret.res = "Ok" /\ calls = pre.calls + 1)
          => (obj = fres.val /\ last_update = now)

(* ------------------------------- C17 ---------------------------------- *)
\* C17: after refresh() or new_and_refresh() succeeds, however long
\* refresh_fn took, last_update is the completion time and get() is Ok.
C17_StampAtCompletion ==
    (phase = "idle" /\ Last \in {"refresh", "new_and_refresh"}
                    /\ ret.res = "Ok")
        => /\ last_update = now
           /\ get = Ok(obj)

\* refresh() with ttl = 0 whose refresh_fn took a millisecond or more
C17_Witness ==
    /\ phase = "idle"
    /\ Last = "refresh"
    /\ ret.res = "Ok"
    /\ ttl = 0
    /\ now - pre.at >= TicksPerMs
    /\ get = Ok(obj)

(* ------------------------------- C18 ---------------------------------- *)
\* C18 (as claimed): whatever is done to the system clock between the last
\* refresh and the call, neither get() nor get_or_refresh() panics.
C18_Original == ret.res # "panic"

(* ------------------------------- C19 ---------------------------------- *)
\* C19: the stored value is the one handed to new() or, once refresh_fn
\* has succeeded, the one its latest successful invocation produced; get()
\* and get_or_refresh() return Ok with that value only.
C19_ValueIsLatest ==
    /\ Born => obj = latest
    /\ (ret.op \in {"get", "get_or_refresh"} /\ ret.res = "Ok")
          => ret.val = latest

\* refresh_fn succeeded with 200, then failed; get() returns 200
C19_Witness ==
    /\ phase = "idle"
    /\ hist = <<"refresh", "refresh", "get">>
    /\ ret = Returned("get", Ok(200))
    /\ calls = 2
    /\ fails = 1
    /\ fres.res = "Err"

(* ------------------------------- C20 ---------------------------------- *)
\* C20: get() is Ok exactly while the elapsed time is below ttl + 1 ms and
\* TimeoutError from ttl + 1 ms on, and get_or_refresh() invokes refresh_fn
\* under exactly the same test.
C20_WholeMillis ==
    /\ (Born /\ now >= last_update)
          => /\ get = Ok(obj) <=> now - last_update < TtlTicks + TicksPerMs
             /\ get = TimeoutError
                   <=> now - last_update >= TtlTicks + TicksPerMs
    /\ phase = "get_or_refresh"
          => pre.at - pre.last_update >= TtlTicks + TicksPerMs
    /\ (phase = "idle" /\ Last = "get_or_refresh" /\ ret.res # "panic")
          => (calls = pre.calls + 1
                 <=> pre.at - pre.last_update >= TtlTicks + TicksPerMs)

\* get() is Ok one tick short of ttl + 1 ms, beyond ttl
C20_Witness ==
    /\ phase = "idle"
    /\ Last = "get"
    /\ now - last_update = TtlTicks + TicksPerMs - 1
    /\ now - last_update > TtlTicks
    /\ ret = Returned("get", Ok(obj))
=============================================================================
